---------------------------- MODULE Spec2Model ----------------------------
(***************************************************************************)
(* RewritePro: the per-URL pipeline (extract -> prompt -> rewrite with     *)
(* retries -> archive) of src/src/streamlit_app.py and src/src/web_app.py. *)
(*                                                                         *)
(* Strings are sequences of one-character strings.  In a completion        *)
(* response the tokens "W600" and "W801" each abbreviate that many         *)
(* one-letter words joined by single spaces, so that the 600..800 word     *)
(* band of web_app can be met without sequences of a thousand characters.  *)
(* Times are in thousandths of a time unit where a fraction is needed.     *)
(***************************************************************************)
EXTENDS Integers, Sequences, FiniteSets, TLC

VARIABLES
    app,          \* which of the two applications runs
    mode,         \* "ui": a run started from the page; "direct": one call of rewrite_article
    choice,       \* the label chosen in the radio selector (ui mode)
    article_type, \* the category passed to rewrite_article
    urls,         \* the cleaned URL list of the run
    pc,           \* position of the script
    idx,          \* enumerate(urls, start=1): position of the current URL
    text,         \* extract_text_from_url(url)[0]
    title,        \* extract_text_from_url(url)[1]
    prompt,       \* rewrite_article: prompt
    attempt,      \* rewrite_article: loop variable of range(1, 4)
    backoff,      \* rewrite_article: backoff
    outcomes,     \* what each remote call of the current rewrite_article call did
    sleeps,       \* the time.sleep calls of the current rewrite_article call
    raw,          \* message.content of the response that did not raise
    warned,       \* web_app: the word-count warning was logged
    rewritten,    \* value returned by rewrite_article
    zf,           \* entries written to the zip archive, in order
    success,      \* success / success_count
    fetches,      \* URLs handed to extract_text_from_url, in order
    hist,         \* per visited URL: what the iteration did
    shown         \* what the page shows at the end of the run

vars == <<app, mode, choice, article_type, urls, pc, idx, text, title, prompt,
          attempt, backoff, outcomes, sleeps, raw, warned, rewritten, zf,
          success, fetches, hist, shown>>

-----------------------------------------------------------------------------
(* Bounds *)

MaxUrls == 2

(* Program constants *)

MaxAttempts == 3
InitialBackoff == 1
MaxName == 50
WordMin == 600
WordMax == 800

-----------------------------------------------------------------------------
(* Optional values: None and strings *)

None == [isNone |-> TRUE, val |-> <<>>]
Some(s) == [isNone |-> FALSE, val |-> s]

\* variant: `is None` tests in place of truthiness
Truthy_NotNone(x) == ~x.isNone

\* Python truthiness of a value that is None or a string
Truthy(x) == ~x.isNone /\ x.val # <<>>

-----------------------------------------------------------------------------
(* Characters and string functions *)

Whitespace == {" ", "\n", "\t"}

UpperLetters == {"F", "T", "M", "G", "O"}
LowerLetters ==
    {"a", "b", "c", "d", "e", "f", "g", "i", "l", "m", "n", "o", "p", "r", "s", "t", "v", "x"}
DigitChars == {"0", "1", "2", "3", "4", "5", "6", "7", "8", "9"}

\* str.isalnum on one character
IsAlnum(c) == c \in UpperLetters \cup LowerLetters \cup DigitChars

\* str.lower on one character
LowerChar(c) ==
    CASE c = "F" -> "f"
      [] c = "T" -> "t"
      [] c = "M" -> "m"
      [] c = "G" -> "g"
      [] c = "O" -> "o"
      [] OTHER -> c

\* str.lower
Lower(s) == [i \in 1..Len(s) |-> LowerChar(s[i])]

RECURSIVE LStrip(_)
LStrip(s) == IF s # <<>> /\ Head(s) \in Whitespace THEN LStrip(Tail(s)) ELSE s

RECURSIVE RStrip(_)
RStrip(s) ==
    IF s # <<>> /\ s[Len(s)] \in Whitespace
    THEN RStrip(SubSeq(s, 1, Len(s) - 1))
    ELSE s

\* variant: lstrip() in place of strip()
Strip_LeftOnly(s) == LStrip(s)

\* str.strip()
Strip(s) == RStrip(LStrip(s))

\* str.split() with no argument: the maximal runs of non-whitespace
RECURSIVE SplitFrom(_, _, _)
SplitFrom(s, cur, acc) ==
    IF s = <<>>
    THEN IF cur = <<>> THEN acc ELSE Append(acc, cur)
    ELSE IF Head(s) \in Whitespace
         THEN SplitFrom(Tail(s), <<>>, IF cur = <<>> THEN acc ELSE Append(acc, cur))
         ELSE SplitFrom(Tail(s), Append(cur, Head(s)), acc)

Split(s) == SplitFrom(s, <<>>, <<>>)

\* the number of words a token of a response stands for
WordsIn(tok) ==
    CASE tok = "W600" -> 600
      [] tok = "W801" -> 801
      [] OTHER -> 1

\* the number of words in one maximal run of non-whitespace tokens: tokens
\* that touch share the word at their border
RECURSIVE RunWords(_)
RunWords(w) ==
    IF w = <<>> THEN 0
    ELSE IF Len(w) = 1 THEN WordsIn(w[1])
    ELSE WordsIn(Head(w)) - 1 + RunWords(Tail(w))

RECURSIVE SumWords(_)
SumWords(ws) == IF ws = <<>> THEN 0 ELSE RunWords(Head(ws)) + SumWords(Tail(ws))

\* len(content.split())
WordCount(content) == SumWords(Split(content))

Digit(d) ==
    CASE d = 0 -> "0" [] d = 1 -> "1" [] d = 2 -> "2" [] d = 3 -> "3" [] d = 4 -> "4"
      [] d = 5 -> "5" [] d = 6 -> "6" [] d = 7 -> "7" [] d = 8 -> "8" [] d = 9 -> "9"

\* str(n) of a natural number, as the f-string formats idx
RECURSIVE Str(_)
Str(n) == IF n < 10 THEN <<Digit(n)>> ELSE Append(Str(n \div 10), Digit(n % 10))

\* "".join(c if c.isalnum() else "_" for c in title)
Sanitize(t) == [i \in 1..Len(t) |-> IF IsAlnum(t[i]) THEN t[i] ELSE "_"]

\* s[:n]
Take(s, n) == SubSeq(s, 1, IF Len(s) < n THEN Len(s) ELSE n)

Rep(c, n) == [i \in 1..n |-> c]


-----------------------------------------------------------------------------
(* The environment: pages behind the URLs, and what the completion service
   may answer *)

Apps == {"streamlit", "web"}

\* the lines a user may paste in the text area: the URLs "a", "b" and "c",
\* blanks around a URL, blank lines
Lines == {<<"a">>, <<" ", "b", " ">>, <<"c">>, <<>>, <<" ">>}

RECURSIVE SeqsUpTo(_, _)
SeqsUpTo(S, n) ==
    IF n = 0 THEN {<<>>}
    ELSE LET shorter == SeqsUpTo(S, n - 1)
         IN shorter \cup {Append(q, x) : q \in {r \in shorter : Len(r) = n - 1}, x \in S}

Inputs == SeqsUpTo(Lines, MaxUrls)

\* article.text and article.title of the page behind a URL
Page(u) ==
    CASE u = <<"a">> -> [text |-> <<"s", " ", "t">>, title |-> <<"T", " ", "1">>]
      [] u = <<"b">> -> [text |-> <<"t">>, title |-> Rep("!", MaxName + 1)]
      [] OTHER -> [text |-> <<>>, title |-> <<>>]

\* message.content of the responses that carry one
Contents ==
    { <<" ", "\n">>,
      <<" ", "a", " ", "W801", "\n">>,
      <<"\n", "W600", " ">> }

\* the ways a remote call fails: the client raises, or the response has no
\* content and .strip() raises inside the try block
ErrorKinds == {"timeout", "malformed"}

\* random.random() in thousandths: values of [0, 1)
RandomSamples == {0, 998}

-----------------------------------------------------------------------------
(* Categories *)

S_food == <<"f", "o", "o", "d">>
S_travel == <<"t", "r", "a", "v", "e", "l">>
S_medical == <<"m", "e", "d", "i", "c", "a", "l">>
S_finance == <<"f", "i", "n", "a", "n", "c", "e">>
S_general == <<"g", "e", "n", "e", "r", "a", "l">>
S_article == <<"a", "r", "t", "i", "c", "l", "e">>

\* the options of st.radio
Choices(a) ==
    IF a = "streamlit"
    THEN { <<"*", " ", "F", "o", "o", "d">>,
           <<"*", " ", "T", "r", "a", "v", "e", "l">>,
           <<"*", " ", "M", "e", "d", "i", "c", "a", "l">>,
           <<"*", " ", "F", "i", "n", "a", "n", "c", "e">>,
           <<"*", " ", "G", "e", "n", "e", "r", "a", "l">> }
    ELSE { S_travel, S_food }

\* variant: the label's word is passed on without .lower()
ArticleType_NoLower(a, ch) == IF a = "streamlit" THEN Split(ch)[2] ELSE ch

\* article_type as the script derives it from the selected option
ArticleType(a, ch) == IF a = "streamlit" THEN Lower(Split(ch)[2]) ELSE ch

\* the category values a direct caller may pass
CategoryUniverse ==
    { S_food, S_travel, S_medical, S_finance, S_general,
      <<"F", "o", "o", "d">>, <<"s", "p", "o", "r", "t">>, <<>> }

NoPrompt == [raised |-> FALSE, kind |-> "", text |-> <<>>]

\* variant: the else branch falls back to a prompt without extra rules
GetPrompt_Fallback(a, t, cat) == [raised |-> FALSE, kind |-> "general", text |-> t]

\* get_prompt: the if/elif chain over article_type; the else branch raises
GetPrompt(a, t, cat) ==
    IF a = "streamlit"
    THEN CASE cat = S_food -> [raised |-> FALSE, kind |-> "food", text |-> t]
           [] cat = S_travel -> [raised |-> FALSE, kind |-> "travel", text |-> t]
           [] cat = S_medical -> [raised |-> FALSE, kind |-> "medical", text |-> t]
           [] cat = S_finance -> [raised |-> FALSE, kind |-> "finance", text |-> t]
           [] cat = S_general -> [raised |-> FALSE, kind |-> "general", text |-> t]
           [] OTHER -> [raised |-> TRUE, kind |-> "ValueError", text |-> <<>>]
    ELSE CASE cat = S_travel -> [raised |-> FALSE, kind |-> "travel", text |-> t]
           [] cat = S_food -> [raised |-> FALSE, kind |-> "food", text |-> t]
           [] OTHER -> [raised |-> TRUE, kind |-> "ValueError", text |-> <<>>]

-----------------------------------------------------------------------------
(* Helpers of the script *)

\* urls = [u.strip() for u in urls_input.splitlines() if u.strip()]
RECURSIVE CleanUrls(_)
CleanUrls(lines) ==
    IF lines = <<>> THEN <<>>
    ELSE IF Strip(Head(lines)) # <<>>
         THEN <<Strip(Head(lines))>> \o CleanUrls(Tail(lines))
         ELSE CleanUrls(Tail(lines))

\* x or default
OrElse(s, default) == IF s # <<>> THEN s ELSE default

\* variant: except TimeoutError
Caught_OnlyTimeout(kind) == kind = "timeout"

\* except Exception: which failures of the remote call the handler catches
Caught(kind) == kind \in ErrorKinds

\* random.random()*0.5, in thousandths
Jitter(r) == r \div 2

\* 600 <= word_count <= 800
InBand(n) == WordMin <= n /\ n <= WordMax

\* variant: f"{safe}.txt"
Filename_NoIndex(t, i) == Take(Sanitize(t), MaxName) \o <<".", "t", "x", "t">>

\* f"{safe}_{idx}.txt" with safe the sanitized title cut to 50 characters
Filename(t, i) == Take(Sanitize(t), MaxName) \o <<"_">> \o Str(i) \o <<".", "t", "x", "t">>

\* f"// {title} //\nSource: {url}\n\n{rewritten}"
Content(t, u, r) == [title |-> t, source |-> u, body |-> r]

-----------------------------------------------------------------------------
(* Initial states *)

DirectTexts == {<<"s", " ", "t">>}

InitCommon ==
    /\ app \in Apps
    /\ urls = <<>>
    /\ idx = 0
    /\ title = None
    /\ prompt = NoPrompt
    /\ attempt = 0
    /\ backoff = 0
    /\ outcomes = <<>>
    /\ sleeps = <<>>
    /\ raw = None
    /\ warned = FALSE
    /\ rewritten = None
    /\ zf = <<>>
    /\ success = 0
    /\ fetches = <<>>
    /\ hist = <<>>
    /\ shown = "nothing"

\* the page is loaded, an option is selected, the button is not yet pressed
InitUi ==
    /\ InitCommon
    /\ mode = "ui"
    /\ choice \in Choices(app)
    /\ article_type = ArticleType(app, choice)
    /\ text = None
    /\ pc = "idle"

\* rewrite_article(text, article_type) is called on its own
InitDirect ==
    /\ InitCommon
    /\ mode = "direct"
    /\ choice = <<>>
    /\ article_type \in CategoryUniverse
    /\ text \in {Some(t) : t \in DirectTexts}
    /\ pc = "rewrite"

Init == InitUi \/ InitDirect

-----------------------------------------------------------------------------
(* The script after the button is pressed *)

\* lines 192-201: clean the URL list, stop on an empty one, set up the run
Start ==
    /\ pc = "idle"
    /\ mode = "ui"
    /\ \E input \in Inputs :
         /\ urls' = CleanUrls(input)
         /\ IF urls' = <<>>
            THEN pc' = "stopped" /\ shown' = "warning"
            ELSE pc' = "loop" /\ shown' = shown
    /\ zf' = <<>>
    /\ success' = 0
    /\ UNCHANGED <<app, mode, choice, article_type, idx, text, title, prompt, attempt,
                   backoff, outcomes, sleeps, raw, warned, rewritten, fetches, hist>>

HistEntry(t, called, ret, wrote) ==
    [text |-> t, called |-> called, ret |-> ret, wrote |-> wrote]

\* extract_text_from_url returns (text or '', title or 'article'); the loop
\* body goes on to rewrite_article, or continues when the text is empty
ExtractOk ==
    /\ pc = "loop"
    /\ idx < Len(urls)
    /\ idx' = idx + 1
    /\ fetches' = Append(fetches, urls[idx'])
    /\ text' = Some(OrElse(Page(urls[idx']).text, <<>>))
    /\ title' = Some(OrElse(Page(urls[idx']).title, S_article))
    /\ outcomes' = <<>>
    /\ sleeps' = <<>>
    /\ raw' = None
    /\ warned' = FALSE
    /\ IF Truthy(text')
       THEN pc' = "rewrite" /\ hist' = hist
       ELSE pc' = "loop" /\ hist' = Append(hist, HistEntry(text', FALSE, None, FALSE))
    /\ UNCHANGED <<app, mode, choice, article_type, urls, prompt, attempt, backoff,
                   rewritten, zf, success, shown>>

\* extract_text_from_url catches the exception and returns (None, None); the
\* loop body continues
ExtractFail ==
    /\ pc = "loop"
    /\ idx < Len(urls)
    /\ idx' = idx + 1
    /\ fetches' = Append(fetches, urls[idx'])
    /\ text' = None
    /\ title' = None
    /\ outcomes' = <<>>
    /\ sleeps' = <<>>
    /\ raw' = None
    /\ warned' = FALSE
    /\ IF Truthy(text')
       THEN pc' = "rewrite" /\ hist' = hist
       ELSE pc' = "loop" /\ hist' = Append(hist, HistEntry(text', FALSE, None, FALSE))
    /\ UNCHANGED <<app, mode, choice, article_type, urls, prompt, attempt, backoff,
                   rewritten, zf, success, shown>>

\* rewrite_article up to the loop: get_prompt, backoff = 1.0
RewriteBegin ==
    /\ pc = "rewrite"
    /\ LET g == GetPrompt(app, text.val, article_type)
       IN IF g.raised
          THEN /\ pc' = "raised"
               /\ UNCHANGED <<prompt, backoff, attempt>>
          ELSE /\ pc' = "attempt"
               /\ prompt' = g
               /\ backoff' = InitialBackoff
               /\ attempt' = 1
    /\ UNCHANGED <<app, mode, choice, article_type, urls, idx, text, title, outcomes,
                   sleeps, raw, warned, rewritten, zf, success, fetches, hist, shown>>

\* the try block runs to its return: the response's content, stripped
AttemptOk ==
    /\ pc = "attempt"
    /\ attempt <= MaxAttempts
    /\ \E c \in Contents :
         /\ raw' = Some(c)
         /\ rewritten' = Some(Strip(c))
         /\ warned' = (app = "web" /\ ~InBand(WordCount(Strip(c))))
    /\ outcomes' = Append(outcomes, "ok")
    /\ pc' = "returned"
    /\ UNCHANGED <<app, mode, choice, article_type, urls, idx, text, title, prompt,
                   attempt, backoff, sleeps, zf, success, fetches, hist, shown>>

\* variant: backoff += 1 in place of backoff *= 2
AttemptError_LinearBackoff ==
    /\ pc = "attempt"
    /\ attempt <= MaxAttempts
    /\ \E kind \in ErrorKinds, r \in RandomSamples :
         /\ outcomes' = Append(outcomes, kind)
         /\ sleeps' = Append(sleeps, [base |-> backoff, jitter |-> Jitter(r)])
         /\ backoff' = backoff + 1
         /\ attempt' = attempt + 1
         /\ pc' = pc
    /\ UNCHANGED <<app, mode, choice, article_type, urls, idx, text, title, prompt,
                   raw, warned, rewritten, zf, success, fetches, hist, shown>>

\* the try block raises: log, sleep, double the backoff, next attempt
AttemptError ==
    /\ pc = "attempt"
    /\ attempt <= MaxAttempts
    /\ \E kind \in ErrorKinds, r \in RandomSamples :
         /\ outcomes' = Append(outcomes, kind)
         /\ IF Caught(kind)
            THEN /\ sleeps' = Append(sleeps, [base |-> backoff, jitter |-> Jitter(r)])
                 /\ backoff' = backoff * 2
                 /\ attempt' = attempt + 1
                 /\ pc' = pc
            ELSE /\ pc' = "raised"
                 /\ UNCHANGED <<sleeps, backoff, attempt>>
    /\ UNCHANGED <<app, mode, choice, article_type, urls, idx, text, title, prompt,
                   raw, warned, rewritten, zf, success, fetches, hist, shown>>

\* variant: raise after the loop in place of return None
Exhausted_Raises ==
    /\ pc = "attempt"
    /\ attempt > MaxAttempts
    /\ pc' = "raised"
    /\ UNCHANGED <<app, mode, choice, article_type, urls, idx, text, title, prompt,
                   attempt, backoff, outcomes, sleeps, raw, warned, rewritten, zf,
                   success, fetches, hist, shown>>

\* range(1, 4) is exhausted: return None
Exhausted ==
    /\ pc = "attempt"
    /\ attempt > MaxAttempts
    /\ rewritten' = None
    /\ pc' = "returned"
    /\ UNCHANGED <<app, mode, choice, article_type, urls, idx, text, title, prompt,
                   attempt, backoff, outcomes, sleeps, raw, warned, zf, success,
                   fetches, hist, shown>>

\* if not rewritten: continue
Skip ==
    /\ pc = "returned"
    /\ mode = "ui"
    /\ ~Truthy(rewritten)
    /\ hist' = Append(hist, HistEntry(text, TRUE, rewritten, FALSE))
    /\ pc' = "loop"
    /\ UNCHANGED <<app, mode, choice, article_type, urls, idx, text, title, prompt,
                   attempt, backoff, outcomes, sleeps, raw, warned, rewritten, zf,
                   success, fetches, shown>>

\* variant: the entry is written and success += 1 is missing
Archive_NoCount ==
    /\ pc = "returned"
    /\ mode = "ui"
    /\ Truthy(rewritten)
    /\ zf' = Append(zf, [filename |-> Filename(title.val, idx),
                         content |-> Content(title.val, urls[idx], rewritten.val)])
    /\ hist' = Append(hist, HistEntry(text, TRUE, rewritten, TRUE))
    /\ pc' = "loop"
    /\ UNCHANGED <<app, mode, choice, article_type, urls, idx, text, title, prompt,
                   attempt, backoff, outcomes, sleeps, raw, warned, rewritten,
                   success, fetches, shown>>

\* the entry is written and counted
Archive ==
    /\ pc = "returned"
    /\ mode = "ui"
    /\ Truthy(rewritten)
    /\ zf' = Append(zf, [filename |-> Filename(title.val, idx),
                         content |-> Content(title.val, urls[idx], rewritten.val)])
    /\ success' = success + 1
    /\ hist' = Append(hist, HistEntry(text, TRUE, rewritten, TRUE))
    /\ pc' = "loop"
    /\ UNCHANGED <<app, mode, choice, article_type, urls, idx, text, title, prompt,
                   attempt, backoff, outcomes, sleeps, raw, warned, rewritten,
                   fetches, shown>>

\* variant: the download button is offered without testing success
Finish_AlwaysDownload ==
    /\ pc = "loop"
    /\ idx = Len(urls)
    /\ shown' = "download"
    /\ pc' = "done"
    /\ UNCHANGED <<app, mode, choice, article_type, urls, idx, text, title, prompt,
                   attempt, backoff, outcomes, sleeps, raw, warned, rewritten, zf,
                   success, fetches, hist>>

\* after the loop: the summary, and the download button if success is non-zero
Finish ==
    /\ pc = "loop"
    /\ idx = Len(urls)
    /\ shown' = IF success # 0 THEN "download" ELSE "error"
    /\ pc' = "done"
    /\ UNCHANGED <<app, mode, choice, article_type, urls, idx, text, title, prompt,
                   attempt, backoff, outcomes, sleeps, raw, warned, rewritten, zf,
                   success, fetches, hist>>

Next ==
    \/ Start
    \/ ExtractOk
    \/ ExtractFail
    \/ RewriteBegin
    \/ AttemptOk
    \/ AttemptError
    \/ Exhausted
    \/ Skip
    \/ Archive
    \/ Finish

Spec == Init /\ [][Next]_vars

\* the script is one thread that runs to its end: no step waits on anything
\* but the blocking calls, each of which returns or raises
FairSpec == Spec /\ WF_vars(Next)

-----------------------------------------------------------------------------
(* Vocabulary of the properties *)

Last(q) == q[Len(q)]

\* the categories each application documents as supported
SupportedCategories(a) ==
    IF a = "streamlit"
    THEN {S_food, S_travel, S_medical, S_finance, S_general}
    ELSE {S_travel, S_food}

Failures(q) == {k \in DOMAIN q : q[k] # "ok"}

\* r is c without its leading and trailing whitespace
IsTrimOf(r, c) ==
    /\ r # <<>> => r[1] \notin Whitespace /\ r[Len(r)] \notin Whitespace
    /\ \E i \in 0..Len(c) :
         /\ i + Len(r) <= Len(c)
         /\ \A k \in 1..Len(r) : c[i + k] = r[k]
         /\ \A k \in 1..Len(c) : (k <= i \/ k > i + Len(r)) => c[k] \in Whitespace

NonBlank(c) == \E k \in DOMAIN c : c[k] \notin Whitespace

\* the iteration of the current URL is over
IterationOver == mode = "ui" /\ idx >= 1 /\ Len(hist) = idx

\* the number of entries written for the URLs at positions 1..i
WrittenUpTo(i) == Cardinality({j \in 1..i : hist[j].wrote})

\* the archive entry of the URL at position i, which wrote one
EntryOf(i) == zf[WrittenUpTo(i)]

AllFailed(q) == Len(q) = MaxAttempts /\ \A k \in DOMAIN q : q[k] # "ok"

-----------------------------------------------------------------------------
(* C1: a call of rewrite_article with a supported category makes one remote
   call per attempt and at most 3 in all, makes attempt k+1 only after
   attempts 1..k all raised, goes on to the next attempt after an error of
   any kind, and always returns. *)

C1_Calls ==
    /\ Len(outcomes) <= MaxAttempts
    /\ pc = "attempt" => Len(outcomes) = attempt - 1
    /\ \A k \in DOMAIN outcomes : k < Len(outcomes) => outcomes[k] \in ErrorKinds

C1_ErrorRetries ==
    (pc = "attempt" /\ outcomes' # outcomes /\ Last(outcomes') \in ErrorKinds)
        => (pc' = "attempt" /\ attempt' = attempt + 1)

C1_BoundedRetry ==
    /\ []C1_Calls
    /\ [][C1_ErrorRetries]_vars
    /\ (pc = "rewrite" /\ article_type \in SupportedCategories(app)) ~> (pc = "returned")

C1_Witness ==
    /\ pc = "returned"
    /\ outcomes = <<"timeout", "malformed", "ok">>

(* C2: rewrite_article returns the content of the first attempt that does
   not raise, without its leading and trailing whitespace, and makes no
   remote call and no sleep after it; in web_app a word count outside
   600..800 is logged and changes nothing else. *)

C2_FirstSuccessTrimmed ==
    (outcomes # <<>> /\ Last(outcomes) = "ok") =>
        /\ pc # "attempt"
        /\ ~raw.isNone /\ ~rewritten.isNone
        /\ IsTrimOf(rewritten.val, raw.val)
        /\ Failures(outcomes) = 1..(Len(outcomes) - 1)
        /\ Len(sleeps) = Len(outcomes) - 1
        /\ warned => app = "web"
        /\ app = "web" =>
             (warned <=> ~(WordMin <= WordCount(rewritten.val)
                           /\ WordCount(rewritten.val) <= WordMax))

C2_Witness ==
    /\ app = "web"
    /\ pc = "returned"
    /\ warned
    /\ outcomes = <<"timeout", "ok">>
    /\ raw = Some(<<" ", "a", " ", "W801", "\n">>)
    /\ rewritten = Some(<<"a", " ", "W801">>)

(* C3, as claimed: whenever an attempt of the rewrite succeeds, whatever the
   service answered, the step after the call writes one archive entry and
   adds one to the success count. *)

C3_AnySuccessRecorded ==
    [][(pc = "returned" /\ mode = "ui" /\ Last(outcomes) = "ok")
          => (Len(zf') = Len(zf) + 1 /\ success' = success + 1)]_vars

(* C3, amended: whenever an attempt of the rewrite succeeds with a content
   that is not blank (not empty after trimming), the step after the call
   writes exactly one archive entry, for this URL, and adds one to the
   success count; nothing else writes to the archive. *)

C3_NonBlankSuccessRecorded ==
    /\ [][(pc = "returned" /\ mode = "ui" /\ Last(outcomes) = "ok" /\ NonBlank(raw.val))
            => /\ Len(zf') = Len(zf) + 1
               /\ SubSeq(zf', 1, Len(zf)) = zf
               /\ Last(zf').content.source = urls[idx]
               /\ Last(zf').content.body = rewritten.val
               /\ success' = success + 1
               /\ pc' = "loop"]_vars
    /\ [][zf' # zf => (pc = "returned" /\ pc' = "loop" /\ Len(zf') = Len(zf) + 1)]_vars

C3_Witness ==
    /\ IterationOver
    /\ pc = "loop"
    /\ outcomes = <<"malformed", "timeout", "ok">>
    /\ hist[idx].wrote
    /\ success = 1
    /\ Len(zf) = 1

(* C4: when all 3 attempts fail rewrite_article returns None and nothing is
   raised; the pipeline writes no entry for that URL, leaves the success
   count alone and goes on to the remaining URLs; whether a URL gets an
   entry, and what the entry holds, depends on that URL's own extraction and
   rewrite alone. *)

C4_OwnOutcome(i) ==
    /\ hist[i].wrote <=> (hist[i].called /\ ~hist[i].ret.isNone /\ hist[i].ret.val # <<>>)
    /\ hist[i].called <=> (~hist[i].text.isNone /\ hist[i].text.val # <<>>)
    /\ hist[i].wrote =>
         /\ WrittenUpTo(i) \in DOMAIN zf
         /\ EntryOf(i).content.source = urls[i]
         /\ EntryOf(i).content.body = hist[i].ret.val
         /\ EntryOf(i).content.title =
              (IF Page(urls[i]).title = <<>> THEN S_article ELSE Page(urls[i]).title)

C4_State ==
    /\ (pc = "returned" /\ AllFailed(outcomes)) => rewritten = None
    /\ pc = "raised" => outcomes = <<>>
    /\ \A i \in DOMAIN hist : C4_OwnOutcome(i)
    /\ Len(zf) = WrittenUpTo(Len(hist))
    /\ pc = "done" => Len(hist) = Len(urls)

C4_SkipStep ==
    (pc = "returned" /\ mode = "ui" /\ AllFailed(outcomes))
        => (zf' = zf /\ success' = success /\ pc' = "loop" /\ idx' = idx)

C5_NoTextNoWork ==
    /\ Len(fetches) = idx
    /\ \A i \in DOMAIN fetches : fetches[i] = urls[i]
    /\ \A i \in DOMAIN hist :
         (hist[i].text.isNone \/ hist[i].text.val = <<>>) =>
             /\ ~hist[i].called
             /\ ~hist[i].wrote
             /\ WrittenUpTo(i) = WrittenUpTo(i - 1)
    /\ (IterationOver /\ (hist[idx].text.isNone \/ hist[idx].text.val = <<>>)) =>
             (outcomes = <<>> /\ sleeps = <<>>)
    /\ success = WrittenUpTo(Len(hist))
    /\ (pc = "done" /\ \A i \in DOMAIN hist : hist[i].text.isNone) =>
             (zf = <<>> /\ success = 0 /\ shown = "error")

C5_Witness ==
    /\ pc = "done"
    /\ Len(urls) = 2
    /\ \A i \in DOMAIN hist : hist[i].text.isNone
    /\ shown = "error"

(* C6: the filenames of the archive are pairwise distinct; the filename of
   the entry of the URL at position i is the title with every
   non-alphanumeric character replaced by "_", cut to 50 characters, then
   "_", the decimal digits of i and ".txt". *)

C6_NameOf(i, f) ==
    LET t == IF Page(urls[i]).title = <<>> THEN S_article ELSE Page(urls[i]).title
        n == IF Len(t) < 50 THEN Len(t) ELSE 50
        d == Str(i)
    IN /\ Len(f) = n + 1 + Len(d) + 4
       /\ \A k \in 1..n : f[k] = (IF IsAlnum(t[k]) THEN t[k] ELSE "_")
       /\ f[n + 1] = "_"
       /\ \A k \in 1..Len(d) : f[n + 1 + k] = d[k]
       /\ SubSeq(f, n + Len(d) + 2, Len(f)) = <<".", "t", "x", "t">>

C6_DistinctFilenames ==
    /\ \A j, k \in DOMAIN zf : j # k => zf[j].filename # zf[k].filename
    /\ \A i \in DOMAIN hist : hist[i].wrote => C6_NameOf(i, EntryOf(i).filename)

C6_Witness ==
    /\ Len(zf) = 2
    /\ urls = <<<<"b">>, <<"b">>>>
    /\ Len(zf[1].filename) = 56

(* C7: the success count equals the number of archive entries and is at most
   the number of URLs visited; a URL has an entry only if its extraction and
   its rewrite both succeeded; at the end the download is offered exactly
   when the success count is at least 1, the failure message otherwise. *)

C7_CountMatchesArchive ==
    /\ success = Len(zf)
    /\ success <= idx
    /\ Len(hist) <= idx
    /\ Len(zf) = WrittenUpTo(Len(hist))
    /\ \A i \in DOMAIN hist :
         hist[i].wrote => (~hist[i].text.isNone /\ ~hist[i].ret.isNone)
    /\ pc = "done" =>
         /\ shown \in {"download", "error"}
         /\ shown = "download" <=> success >= 1
    /\ pc \notin {"done", "stopped"} => shown = "nothing"

C7_Witness ==
    /\ pc = "done"
    /\ Len(urls) = 2
    /\ success = 1
    /\ ~hist[1].wrote
    /\ shown = "download"

(* C8: get_prompt raises for exactly the categories outside the supported
   set of the application; when it raises inside rewrite_article no remote
   call has been made, nothing has slept and no attempt has started. *)

C8_InvalidCategoryImmediate ==
    /\ pc = "raised" =>
         /\ article_type \notin SupportedCategories(app)
         /\ outcomes = <<>> /\ sleeps = <<>> /\ attempt = 0
    /\ pc \in {"attempt", "returned"} => article_type \in SupportedCategories(app)
    /\ (mode = "direct" /\ article_type \notin SupportedCategories(app))
         => pc \in {"rewrite", "raised"}

C8_Witness ==
    /\ pc = "raised"
    /\ app = "web"
    /\ article_type = S_medical

(* C9: every option of the selector gives a supported category, so a run
   started from the page never raises the invalid-category error; it fetches
   the URLs of the list in order, one at a time, and does not stop before the
   last one. *)

C9_UiRunVisitsAll ==
    mode = "ui" =>
        /\ article_type \in SupportedCategories(app)
        /\ pc # "raised"
        /\ idx <= Len(urls)
        /\ fetches = SubSeq(urls, 1, idx)
        /\ pc = "done" => (idx = Len(urls) /\ Len(hist) = Len(urls))
        /\ pc \in {"done", "stopped"} \/ ENABLED Next

C9_Witness ==
    /\ pc = "done"
    /\ app = "streamlit"
    /\ choice = <<"*", " ", "M", "e", "d", "i", "c", "a", "l">>
    /\ Len(urls) = 2
    /\ hist[1].text.isNone
    /\ hist[2].called /\ hist[2].ret = None

(* C10: the k-th failed attempt is followed by one sleep of 2^(k-1) units
   plus a jitter in [0, 0.5); a call whose 3 attempts all fail sleeps three
   times, the third time before returning None with no further attempt. *)

C10_BackoffDoubles ==
    /\ Len(sleeps) = Cardinality(Failures(outcomes))
    /\ \A k \in DOMAIN sleeps :
         /\ sleeps[k].base = 2 ^ (k - 1)
         /\ 0 <= sleeps[k].jitter /\ sleeps[k].jitter < 500
    /\ (pc = "returned" /\ AllFailed(outcomes)) =>
         /\ Len(sleeps) = 3
         /\ rewritten = None

C10_Witness ==
    /\ pc = "returned"
    /\ rewritten = None
    /\ Len(outcomes) = 3
    /\ Len(sleeps) = 3
    /\ sleeps[3] = [base |-> 4, jitter |-> 499]

=============================================================================
